---- MODULE Spec2Model ----
(***************************************************************************)
(* State-machine model of the debug-tree crate: the TreeBuilder facade     *)
(* (src/src/lib.rs), the cursor state machine TreeBuilderBase              *)
(* (src/src/internal.rs), the Tree and its renderer (src/src/tree.rs) and  *)
(* the ScopedBranch guard (module scoped_branch, used by lib.rs).          *)
(*                                                                         *)
(* Strings are sequences of one-character strings.  The box-drawing glyphs *)
(* of tree.rs are written with ASCII stand-ins: VBar, Tee, Corner, HRule,  *)
(* Tip.  Vec indices are 0-based as in the source; TLA+ sequences are      *)
(* 1-based, hence the "+ 1" where a Vec is indexed.                        *)
(***************************************************************************)
EXTENDS Integers, Sequences, FiniteSets, TLC

\* ------------------------------------------------------------------ bounds
\* Largest number of nodes below the root that add_leaf may build.
MaxNodes == 2
\* Cap on dive_count (pending, not yet materialized descents).
MaxDive == 2
\* Number of ScopedBranch guards a run may create.
MaxGuards == 1
\* set_indentation draws its argument from 1..MaxIndent.
MaxIndent == 2
\* Number of explicit release() calls recorded per guard.
MaxReleases == 2

\* usize arithmetic wraps modulo this when overflow checks are off
\* (a 16-bit target; the width only matters through the wrapped value).
UsizeModulus == 2 ^ 16

\* Leaf texts the callers pass: a single-line and a multi-line one.
Texts == { <<"a">>, <<"a", "\n", "b">> }
IndentInputs == 1..MaxIndent

\* ------------------------------------------------------------------ glyphs
VBar == "|"
Tee == "+"
Corner == "L"
HRule == "-"
Tip == ">"

\* ------------------------------------------------------------ Option<T>
None == [some |-> FALSE]
Some(x) == [some |-> TRUE, val |-> x]

\* ------------------------------------------------------------------ Tree
\* Tree::new(text): a node with optional text and no children.
Tree_new(text) == [text |-> text, children |-> <<>>]

\* Tree::at_mut(path): the node reached by following path, None when an
\* index is out of bounds.
RECURSIVE at_mut(_, _)
at_mut(t, p) ==
    IF p = <<>>
    THEN Some(t)
    ELSE IF p[1] < Len(t.children)
         THEN at_mut(t.children[p[1] + 1], Tail(p))
         ELSE None

\* push that puts the new child in front of its siblings.
RECURSIVE push_front_at(_, _, _)
push_front_at(t, p, c) ==
    IF p = <<>>
    THEN [t EXCEPT !.children = <<c>> \o @]
    ELSE [t EXCEPT !.children[p[1] + 1] = push_front_at(@, Tail(p), c)]

\* The effect of `x.children.push(c)` through the reference x that
\* at_mut(p) returned: the tree with c appended to the node at p.
\* Only used when at_mut(t, p) is Some.
RECURSIVE push_at(_, _, _)
push_at(t, p, c) ==
    IF p = <<>>
    THEN [t EXCEPT !.children = Append(@, c)]
    ELSE [t EXCEPT !.children[p[1] + 1] = push_at(@, Tail(p), c)]

\* Number of nodes of a tree, the node itself included.
RECURSIVE node_count(_)
SumCounts(cs, i) ==
    LET RECURSIVE go(_)
        go(k) == IF k > Len(cs) THEN 0 ELSE node_count(cs[k]) + go(k + 1)
    IN go(i)
node_count(t) == 1 + SumCounts(t.children, 1)

\* --------------------------------------------------------------- renderer
\* The `position` match of Tree::lines.
Position(index, pool_size) ==
    IF pool_size = 1 THEN "Only"
    ELSE IF index = pool_size - 1 THEN "Last"
    ELSE IF index = 0 THEN "First"
    ELSE "Inside"

\* The flag with First treated like Last: no guide below a first child.
Continues_inside_only(position) == position = "Inside"

\* The flag pushed onto next_continue.
Continues(position) == position \in {"Inside", "First"}

\* A repeat that ignores the count: one copy whatever the indentation.
Repeat_once(c, n) == <<c>>

\* "c".repeat(n), and the padding of format!("{:n$}", "").
Repeat(c, n) == [i \in 1..n |-> c]

\* The loop over does_continue[2..]: one guide glyph or blank per flag,
\* each followed by indent - 1 spaces.
RECURSIVE guide_columns(_, _)
guide_columns(flags, indent) ==
    IF flags = <<>>
    THEN <<>>
    ELSE <<IF flags[1] THEN VBar ELSE " ">> \o Repeat(" ", indent - 1)
         \o guide_columns(Tail(flags), indent)

\* x.contains("\n")
contains_newline(x) == \E i \in 1..Len(x) : x[i] = "\n"

\* x.replace("\n", with)
RECURSIVE replace_newlines(_, _)
replace_newlines(x, with) ==
    IF x = <<>>
    THEN <<>>
    ELSE (IF x[1] = "\n" THEN with ELSE <<x[1]>>) \o replace_newlines(Tail(x), with)

\* Tree::lines.  The result is [panic, out]: `indent - 1` and `indent - 2`
\* are usize subtractions, evaluated only for a node whose does_continue
\* has more than one flag; with indent < 2 the first such node visited
\* panics (overflow check, or "capacity overflow" of repeat on the wrapped
\* value), whatever the build.
RECURSIVE lines(_, _, _, _, _)
lines(t, does_continue, index, pool_size, indent) ==
    LET position == Position(index, pool_size)
        next_continue == Append(does_continue, Continues(position))
        deep == Len(does_continue) > 1
        last == position \in {"Only", "Last"}
        pad == guide_columns(SubSeq(does_continue, 3, Len(does_continue)), indent)
        connector == <<IF last THEN Corner ELSE Tee>> \o Repeat(HRule, indent - 2) \o <<Tip>>
        continuation == <<"\n">> \o pad \o <<IF last THEN " " ELSE VBar>> \o <<" ", " ">>
        s == IF t.text.some
             THEN IF contains_newline(t.text.val)
                  THEN <<" ">> \o replace_newlines(t.text.val, continuation)
                  ELSE <<" ">> \o t.text.val
             ELSE <<>>
        txt == IF deep
               THEN pad \o connector \o s
               ELSE IF t.text.some THEN t.text.val ELSE <<>>
        RECURSIVE kids(_)
        kids(i) ==
            IF i > Len(t.children)
            THEN [panic |-> FALSE, out |-> <<>>]
            ELSE LET r == lines(t.children[i], next_continue, i - 1, Len(t.children), indent)
                     rest == kids(i + 1)
                 IN [panic |-> r.panic \/ rest.panic, out |-> r.out \o rest.out]
        below == kids(1)
    IN IF deep /\ indent < 2
       THEN [panic |-> TRUE, out |-> <<>>]
       ELSE [panic |-> below.panic, out |-> <<txt>> \o below.out]

\* [String]::join(sep)
RECURSIVE join(_, _)
join(ls, sep) ==
    IF ls = <<>> THEN <<>>
    ELSE IF Len(ls) = 1 THEN ls[1]
    ELSE ls[1] \o sep \o join(Tail(ls), sep)

\* ------------------------------------------------------- call outcomes
\* What a call does: the TreeBuilderBase it leaves, what it returns, and
\* whether it panicked instead of returning.
\* A returned value is tagged with the method that returned it and sits in
\* the field of its type (b: bool, n: usize, s: String); methods returning
\* () leave Unit.
NoValue(op) == [op |-> op, b |-> FALSE, n |-> 0, s |-> <<>>]
Unit == NoValue("unit")
RetBool(op, b) == [NoValue(op) EXCEPT !.b = b]
RetUsize(op, n) == [NoValue(op) EXCEPT !.n = n]
RetString(op, x) == [NoValue(op) EXCEPT !.s = x]
Ok(s, r) == [self |-> s, ret |-> r, panic |-> FALSE]
Panicked(s) == [self |-> s, ret |-> NoValue("panic"), panic |-> TRUE]

\* ------------------------------------------------------ TreeBuilderBase
\* TreeBuilderBase::new.  is_enabled is the flag behind
\* TreeBuilderBase::is_enabled / set_enabled, which lib.rs calls; a new
\* builder is enabled (lib.rs, doc test of is_enabled).
Base_new ==
    [data |-> Tree_new(None), path |-> <<>>, dive_count |-> 1, indent |-> 2,
     is_enabled |-> TRUE]

Base_set_indentation(s, indent) == Ok([s EXCEPT !.indent = indent], Unit)

Base_set_enabled(s, enabled) == Ok([s EXCEPT !.is_enabled = enabled], Unit)

Base_is_enabled(s) == s.is_enabled

\* The `for i in 0..dive_count` loop of add_leaf, from iteration i.
RECURSIVE add_leaf_loop(_, _, _)
add_leaf_loop(s, text, i) ==
    IF i >= s.dive_count
    THEN s
    ELSE LET x == at_mut(s.data, s.path)
             child == Tree_new(IF i = s.dive_count - 1 THEN Some(text) ELSE None)
             data1 == IF x.some THEN push_at(s.data, s.path, child) ELSE s.data
             n == IF x.some THEN (Len(x.val.children) + 1) - 1 ELSE 0
         IN add_leaf_loop([s EXCEPT !.data = data1, !.path = Append(@, n)], text, i + 1)

\* The sibling case of add_leaf appending the node but leaving the last
\* index of path as it was.
add_leaf_sibling_keeps_index(s, text) ==
    IF Len(s.path) = 0
    THEN Panicked(s)
    ELSE LET parent == SubSeq(s.path, 1, Len(s.path) - 1)
             x == at_mut(s.data, parent)
         IN IF x.some
            THEN Ok([s EXCEPT !.data = push_at(s.data, parent, Tree_new(Some(text)))], Unit)
            ELSE Ok(s, Unit)

\* The else branch of add_leaf (dive_count = 0): a sibling under the node
\* at path[..len - 1].  With an empty path `self.path.len() - 1` is 0 - 1 in
\* usize: a panic with overflow checks, and without them the slice
\* path[..usize::MAX] is out of range, a panic as well.
add_leaf_sibling(s, text) ==
    IF Len(s.path) = 0
    THEN Panicked(s)
    ELSE LET parent == SubSeq(s.path, 1, Len(s.path) - 1)
             x == at_mut(s.data, parent)
             n == s.path[Len(s.path)] + 1
         IN IF x.some
            THEN Ok([s EXCEPT !.data = push_at(s.data, parent, Tree_new(Some(text))),
                              !.path[Len(s.path)] = n], Unit)
            ELSE Ok(s, Unit)

Base_add_leaf(s, text) ==
    IF s.dive_count > 0
    THEN Ok([add_leaf_loop(s, text, 0) EXCEPT !.dive_count = 0], Unit)
    ELSE add_leaf_sibling(s, text)

\* enter that creates the branch node at once instead of counting a
\* pending descent.
Base_enter_eager(s) ==
    LET x == at_mut(s.data, s.path)
    IN IF x.some
       THEN Ok([s EXCEPT !.data = push_at(@, s.path, Tree_new(None)),
                         !.path = Append(@, Len(x.val.children))], Unit)
       ELSE Ok(s, Unit)

Base_enter(s) == Ok([s EXCEPT !.dive_count = @ + 1], Unit)

\* exit that only takes back pending descents and never pops the path.
Base_exit_never_pops(s) ==
    IF s.dive_count > 0
    THEN Ok([s EXCEPT !.dive_count = @ - 1], RetBool("exit", TRUE))
    ELSE Ok(s, RetBool("exit", FALSE))

Base_exit(s) ==
    IF s.dive_count > 0
    THEN Ok([s EXCEPT !.dive_count = @ - 1], RetBool("exit", TRUE))
    ELSE IF Len(s.path) > 1
         THEN Ok([s EXCEPT !.path = SubSeq(@, 1, Len(@) - 1)], RetBool("exit", TRUE))
         ELSE Ok(s, RetBool("exit", FALSE))

\* path.len() + dive_count - 1 in usize: with both 0 the subtraction
\* underflows, a panic when the build checks overflow, a wrap otherwise.
Base_depth(s, overflow_checks) ==
    IF Len(s.path) + s.dive_count - 1 < 0
    THEN IF overflow_checks
         THEN Panicked(s)
         ELSE Ok(s, RetUsize("depth", (Len(s.path) + s.dive_count - 1) % UsizeModulus))
    ELSE Ok(s, RetUsize("depth", Len(s.path) + s.dive_count - 1))

\* A peek_string that consumes what it renders.
Base_peek_string_consuming(s) ==
    LET r == lines(s.data, <<>>, 0, 1, s.indent)
    IN IF r.panic
       THEN Panicked(s)
       ELSE Ok([s EXCEPT !.data = Tree_new(None), !.path = <<>>, !.dive_count = 1],
               RetString("peek_string", join(Tail(r.out), <<"\n">>)))

Base_peek_string(s) ==
    LET r == lines(s.data, <<>>, 0, 1, s.indent)
    IN IF r.panic THEN Panicked(s) ELSE Ok(s, RetString("peek_string", join(Tail(r.out), <<"\n">>)))

\* peek_print writes the same lines to stdout, one per println!.
Base_peek_print(s) ==
    LET r == lines(s.data, <<>>, 0, 1, s.indent)
    IN IF r.panic THEN Panicked(s) ELSE Ok(s, Unit)

\* A clear that empties the tree in place and keeps the rest.
Base_clear_tree_only(s) == Ok([s EXCEPT !.data = Tree_new(None)], Unit)

Base_clear(s) == Ok(Base_new, Unit)

\* flush_string that renders and leaves the tree in place.
Base_flush_string_keeps(s) ==
    LET r == Base_peek_string(s)
    IN IF r.panic THEN r ELSE Ok(s, RetString("flush_string", r.ret.s))

Base_flush_string(s) ==
    LET r == Base_peek_string(s)
    IN IF r.panic THEN r ELSE Ok(Base_clear(s).self, RetString("flush_string", r.ret.s))

Base_flush_print(s) ==
    LET r == Base_peek_print(s)
    IN IF r.panic THEN r ELSE Base_clear(s)

\* ---------------------------------------------------------- TreeBuilder
\* The facade of lib.rs: each method locks the Mutex around the
\* TreeBuilderBase for the whole call and applies the enabled gate.
TreeBuilder_set_indentation(s, indent) == Base_set_indentation(s, indent)

TreeBuilder_add_leaf(s, text) ==
    IF Base_is_enabled(s) THEN Base_add_leaf(s, text) ELSE Ok(s, Unit)

TreeBuilder_enter(s) ==
    IF Base_is_enabled(s) THEN Base_enter(s) ELSE Ok(s, Unit)

TreeBuilder_exit(s) ==
    IF Base_is_enabled(s) THEN Base_exit(s) ELSE Ok(s, RetBool("exit", FALSE))

TreeBuilder_depth(s, overflow_checks) == Base_depth(s, overflow_checks)

TreeBuilder_peek_print(s) == Base_peek_print(s)

TreeBuilder_flush_print(s) == Base_flush_print(s)

TreeBuilder_peek_string(s) == Base_peek_string(s)

TreeBuilder_flush_string(s) == Base_flush_string(s)

TreeBuilder_clear(s) == Base_clear(s)

TreeBuilder_set_enabled(s, enabled) == Base_set_enabled(s, enabled)

TreeBuilder_is_enabled(s) == Ok(s, RetBool("is_enabled", Base_is_enabled(s)))

\* ---------------------------------------------------------- ScopedBranch
\* A guard is "some" while it holds its builder (state: Some(builder)) and
\* "none" once disarmed or when built by ScopedBranch::none().  A call that
\* hands back a guard yields [self, guard, panic].
WithGuard(r, g) == [self |-> r.self, guard |-> g, panic |-> r.panic]

\* ScopedBranch::new(builder): builder.enter(), then an armed guard.
ScopedBranch_new(s) == WithGuard(TreeBuilder_enter(s), "some")

\* ScopedBranch::none(): the inert guard, holding no builder.
ScopedBranch_none(s) == WithGuard(Ok(s, Unit), "none")

\* A release that calls exit and leaves the guard armed.
ScopedBranch_release_stays_armed(g, s) ==
    IF g = "some"
    THEN LET r == TreeBuilder_exit(s)
         IN [self |-> r.self, guard |-> "some", panic |-> r.panic, exited |-> TRUE]
    ELSE [self |-> s, guard |-> "none", panic |-> FALSE, exited |-> FALSE]

\* ScopedBranch::release: an armed guard calls builder.exit() and disarms.
\* The result is [self, guard, panic, exited]: `exited` tells whether exit
\* was called on the builder (its bool is discarded).
ScopedBranch_release(g, s) ==
    IF g = "some"
    THEN LET r == TreeBuilder_exit(s)
         IN [self |-> r.self, guard |-> "none", panic |-> r.panic, exited |-> TRUE]
    ELSE [self |-> s, guard |-> "none", panic |-> FALSE, exited |-> FALSE]

\* Drop for ScopedBranch: release(), after which the guard is gone.
ScopedBranch_drop(g, s) == [ScopedBranch_release(g, s) EXCEPT !.guard = "dropped"]

\* add_branch without its leaf: the branch is entered but never named.
TreeBuilder_add_branch_unnamed(s, text) == ScopedBranch_new(s)

\* TreeBuilder::add_branch: add_leaf(text), then ScopedBranch::new.
TreeBuilder_add_branch(s, text) ==
    LET r == TreeBuilder_add_leaf(s, text)
    IN IF r.panic THEN WithGuard(r, "unborn") ELSE ScopedBranch_new(r.self)

\* TreeBuilder::enter_scoped.
TreeBuilder_enter_scoped(s) ==
    IF Base_is_enabled(s) THEN ScopedBranch_new(s) ELSE ScopedBranch_none(s)

\* add_branch_to!(tree, text...) and add_branch_to!(tree).
add_branch_to(s, text) ==
    IF Base_is_enabled(s) THEN TreeBuilder_add_branch(s, text) ELSE ScopedBranch_none(s)

add_branch_to_unnamed(s) ==
    IF Base_is_enabled(s) THEN TreeBuilder_enter_scoped(s) ELSE ScopedBranch_none(s)

\* ------------------------------------------------------------------ state
VARIABLES
    data,          \* TreeBuilderBase.data: the tree (root node)
    path,          \* TreeBuilderBase.path
    dive_count,    \* TreeBuilderBase.dive_count
    indent,        \* TreeBuilderBase.indent
    is_enabled,    \* the enabled flag of the builder
    guards,        \* the ScopedBranch guards: "unborn", "some", "none", "dropped"
    panicked,      \* a call panicked: the program has stopped
    ret,           \* what the last call returned
    ghist,         \* per guard, what happened to it (history)
    watch,         \* bookkeeping of a watched enter/exit sequence (history)
    pc             \* position in a scripted scenario ("free" otherwise)

base_vars == <<data, path, dive_count, indent, is_enabled>>
vars == <<data, path, dive_count, indent, is_enabled, guards, panicked, ret,
          ghist, watch, pc>>

\* The TreeBuilderBase behind the builder's Mutex.
self ==
    [data |-> data, path |-> path, dive_count |-> dive_count, indent |-> indent,
     is_enabled |-> is_enabled]

\* The builder holds the TreeBuilderBase s after the step.
Store(s) ==
    /\ data' = s.data
    /\ path' = s.path
    /\ dive_count' = s.dive_count
    /\ indent' = s.indent
    /\ is_enabled' = s.is_enabled

\* The end of a call with outcome r: a panic stops the program.
Return(r) ==
    /\ Store(r.self)
    /\ panicked' = r.panic
    /\ ret' = r.ret

\* History of a guard: how often it called exit on the builder, how often
\* release() was called on it, whether the builder was enabled when it was
\* created, whether it was created armed.
NoGuard == [exits |-> 0, releases |-> 0, born_enabled |-> FALSE, armed |-> FALSE]
\* No enter/exit sequence is being watched.
NoWatch == [on |-> FALSE, depth |-> 0, overflow_checks |-> FALSE, nesting |-> 0,
            at |-> <<>>]

\* The state after TreeBuilder::new(), no guard created yet.
InitBuilder(nguards) ==
    /\ data = Base_new.data
    /\ path = Base_new.path
    /\ dive_count = Base_new.dive_count
    /\ indent = Base_new.indent
    /\ is_enabled = Base_new.is_enabled
    /\ guards = [g \in 1..nguards |-> "unborn"]
    /\ ghist = [g \in 1..nguards |-> NoGuard]
    /\ panicked = FALSE
    /\ ret = Unit
    /\ watch = NoWatch

Init == InitBuilder(MaxGuards) /\ pc = "free"

\* ---------------------------------------------------------------- steps
\* A call on the builder that creates or releases no guard.
Call(r) ==
    /\ ~panicked
    /\ Return(r)
    /\ UNCHANGED <<guards, ghist>>

\* add_leaf stays within the bound on the size of the tree.
RoomFor(s) ==
    \/ ~s.is_enabled
    \/ (node_count(s.data) - 1) + (IF s.dive_count > 0 THEN s.dive_count ELSE 1) <= MaxNodes

\* enter stays within the bound on dive_count.
RoomToDive(s) == ~s.is_enabled \/ s.dive_count < MaxDive

\* The guard slot the next guard takes.
FreeSlot(g) ==
    /\ g \in DOMAIN guards
    /\ guards[g] = "unborn"
    /\ \A h \in DOMAIN guards : h < g => guards[h] # "unborn"

\* A call with outcome r that hands back a guard, kept in slot g.
CallForGuard(g, r) ==
    /\ ~panicked
    /\ FreeSlot(g)
    /\ Store(r.self)
    /\ panicked' = r.panic
    /\ ret' = IF r.panic THEN Panicked(self).ret ELSE Unit
    /\ guards' = [guards EXCEPT ![g] = r.guard]
    /\ ghist' = IF r.panic
                THEN ghist
                ELSE [ghist EXCEPT ![g].born_enabled = is_enabled,
                                   ![g].armed = (r.guard = "some")]

\* release() or the drop of guard g, with outcome r.
CallOnGuard(g, r) ==
    /\ ~panicked
    /\ guards[g] \in {"some", "none"}
    /\ Store(r.self)
    /\ panicked' = r.panic
    /\ ret' = IF r.panic THEN Panicked(self).ret ELSE Unit
    /\ guards' = [guards EXCEPT ![g] = r.guard]
    /\ r.guard = "none" => ghist[g].releases < MaxReleases
    /\ ghist' = [ghist EXCEPT ![g].exits = @ + (IF r.exited THEN 1 ELSE 0),
                              ![g].releases = @ + (IF r.guard = "none" THEN 1 ELSE 0)]

\* A step outside any scripted scenario and outside a watched sequence.
Free == pc = "free" /\ ~watch.on /\ UNCHANGED <<watch, pc>>

\* ------------------------------------------------- the public operations
SetIndentation(n) == Free /\ Call(TreeBuilder_set_indentation(self, n))

AddLeaf(text) == Free /\ RoomFor(self) /\ Call(TreeBuilder_add_leaf(self, text))

Enter == Free /\ RoomToDive(self) /\ Call(TreeBuilder_enter(self))

Exit == Free /\ Call(TreeBuilder_exit(self))

Depth == Free /\ \E overflow_checks \in BOOLEAN : Call(TreeBuilder_depth(self, overflow_checks))

PeekPrint == Free /\ Call(TreeBuilder_peek_print(self))

FlushPrint == Free /\ Call(TreeBuilder_flush_print(self))

PeekString == Free /\ Call(TreeBuilder_peek_string(self))

FlushString == Free /\ Call(TreeBuilder_flush_string(self))

Clear == Free /\ Call(TreeBuilder_clear(self))

SetEnabled(enabled) == Free /\ Call(TreeBuilder_set_enabled(self, enabled))

IsEnabled == Free /\ Call(TreeBuilder_is_enabled(self))

Next ==
    \/ \E n \in IndentInputs : SetIndentation(n)
    \/ \E text \in Texts : AddLeaf(text)
    \/ Enter
    \/ Exit
    \/ Depth
    \/ PeekPrint
    \/ FlushPrint
    \/ PeekString
    \/ FlushString
    \/ Clear
    \/ \E enabled \in BOOLEAN : SetEnabled(enabled)
    \/ IsEnabled

Spec == Init /\ [][Next]_vars

\* ------------------------------------------- the guards, with their history
\* The operations that make a guard, and a guard's release() and drop.
\* Their effect on the builder is that of add_leaf, enter and exit, so the
\* builder states they reach are those of Spec; here each guard is followed.
AddBranch(g, text) ==
    Free /\ RoomFor(self) /\ RoomToDive([self EXCEPT !.dive_count = 0])
         /\ CallForGuard(g, TreeBuilder_add_branch(self, text))

EnterScoped(g) ==
    Free /\ RoomToDive(self) /\ CallForGuard(g, TreeBuilder_enter_scoped(self))

AddBranchTo(g, text) ==
    Free /\ RoomFor(self) /\ RoomToDive([self EXCEPT !.dive_count = 0])
         /\ CallForGuard(g, add_branch_to(self, text))

AddBranchToUnnamed(g) ==
    Free /\ RoomToDive(self) /\ CallForGuard(g, add_branch_to_unnamed(self))

Release(g) == Free /\ CallOnGuard(g, ScopedBranch_release(guards[g], self))

Drop(g) == Free /\ CallOnGuard(g, ScopedBranch_drop(guards[g], self))

\* What a guard does never depends on the texts of the nodes: one text.
GuardTexts == { <<"a">> }

NextGuards ==
    \/ \E text \in GuardTexts : AddLeaf(text)
    \/ Enter
    \/ Exit
    \/ Clear
    \/ \E enabled \in BOOLEAN : SetEnabled(enabled)
    \/ \E g \in DOMAIN guards, text \in GuardTexts : AddBranch(g, text)
    \/ \E g \in DOMAIN guards : EnterScoped(g)
    \/ \E g \in DOMAIN guards, text \in GuardTexts : AddBranchTo(g, text)
    \/ \E g \in DOMAIN guards : AddBranchToUnnamed(g)
    \/ \E g \in DOMAIN guards : Release(g)
    \/ \E g \in DOMAIN guards : Drop(g)

SpecGuards == Init /\ [][NextGuards]_vars

\* ------------------------------------- balanced enter/exit sequences
\* Any state the builder can reach may start a sequence of enter(), exit()
\* and add_leaf() calls.  depth() is called first and its value kept in
\* watch, with the nesting of the sequence's enters: an exit belongs to the
\* sequence only while an enter of the sequence is unmatched.
W_Start ==
    /\ pc = "free" /\ ~watch.on
    /\ \E overflow_checks \in BOOLEAN :
          LET r == TreeBuilder_depth(self, overflow_checks)
          IN /\ Call(r)
             /\ watch' = IF r.panic
                         THEN watch
                         ELSE [NoWatch EXCEPT !.on = TRUE, !.depth = r.ret.n,
                                              !.overflow_checks = overflow_checks]
    /\ UNCHANGED pc

W_AddLeaf(text) ==
    /\ pc = "free" /\ watch.on
    /\ RoomFor(self)
    /\ Call(TreeBuilder_add_leaf(self, text))
    /\ UNCHANGED <<watch, pc>>

W_Enter ==
    /\ pc = "free" /\ watch.on
    /\ RoomToDive(self)
    /\ watch.nesting < MaxDive
    /\ Call(TreeBuilder_enter(self))
    /\ watch' = [watch EXCEPT !.nesting = @ + 1]
    /\ UNCHANGED pc

W_Exit ==
    /\ pc = "free" /\ watch.on
    /\ watch.nesting > 0
    /\ Call(TreeBuilder_exit(self))
    /\ watch' = [watch EXCEPT !.nesting = @ - 1]
    /\ UNCHANGED pc

\* The sequence is over (or given up): the builder is used freely again.
W_Stop ==
    /\ pc = "free" /\ watch.on /\ ~panicked
    /\ watch' = NoWatch
    /\ UNCHANGED <<base_vars, guards, ghist, panicked, ret, pc>>

NextBalanced ==
    \/ \E text \in Texts : AddLeaf(text)
    \/ Enter
    \/ Exit
    \/ Clear
    \/ \E enabled \in BOOLEAN : SetEnabled(enabled)
    \/ W_Start
    \/ \E text \in Texts : W_AddLeaf(text)
    \/ W_Enter
    \/ W_Exit
    \/ W_Stop

SpecBalanced == Init /\ [][NextBalanced]_vars

\* --------------------------------------------- scenario D (disabled calls)
\* new(); set_enabled(false); any add_leaf / add_branch calls, every guard
\* released or dropped at any later point; set_enabled(true);
\* add_leaf("X"); flush_string().
ScenarioGuards == 2
TextX == <<"X">>

D_Disable ==
    /\ pc = "new"
    /\ Call(TreeBuilder_set_enabled(self, FALSE))
    /\ pc' = "disabled"
    /\ UNCHANGED watch

D_AddLeaf(text) ==
    /\ pc = "disabled"
    /\ Call(TreeBuilder_add_leaf(self, text))
    /\ UNCHANGED <<watch, pc>>

D_AddBranch(g, text) ==
    /\ pc = "disabled"
    /\ CallForGuard(g, TreeBuilder_add_branch(self, text))
    /\ UNCHANGED <<watch, pc>>

D_Release(g) ==
    /\ pc \in {"disabled", "enabled", "added"}
    /\ CallOnGuard(g, ScopedBranch_release(guards[g], self))
    /\ UNCHANGED <<watch, pc>>

D_Drop(g) ==
    /\ pc \in {"disabled", "enabled", "added"}
    /\ CallOnGuard(g, ScopedBranch_drop(guards[g], self))
    /\ UNCHANGED <<watch, pc>>

D_Enable ==
    /\ pc = "disabled"
    /\ Call(TreeBuilder_set_enabled(self, TRUE))
    /\ pc' = "enabled"
    /\ UNCHANGED watch

D_AddLeafX ==
    /\ pc = "enabled"
    /\ Call(TreeBuilder_add_leaf(self, TextX))
    /\ pc' = "added"
    /\ UNCHANGED watch

D_Flush ==
    /\ pc = "added"
    /\ Call(TreeBuilder_flush_string(self))
    /\ pc' = "flushed"
    /\ UNCHANGED watch

InitD == InitBuilder(ScenarioGuards) /\ pc = "new"

NextD ==
    \/ D_Disable
    \/ \E text \in Texts : D_AddLeaf(text)
    \/ \E g \in DOMAIN guards, text \in Texts : D_AddBranch(g, text)
    \/ \E g \in DOMAIN guards : D_Release(g)
    \/ \E g \in DOMAIN guards : D_Drop(g)
    \/ D_Enable
    \/ D_AddLeafX
    \/ D_Flush

SpecD == InitD /\ [][NextD]_vars

\* ------------------------------------ scenario B (three nested branches)
\* new(); three nested add_branch calls, no leaf added inside any of them;
\* the guards released (release() or drop) innermost first; depth();
\* peek_string().
BranchTexts == { <<"a">>, <<"b">>, TextX }

\* g is the innermost guard still armed.
Innermost(g) ==
    /\ guards[g] = "some"
    /\ \A h \in DOMAIN guards : h > g => guards[h] \in {"none", "dropped"}

B_AddBranch(g, text) ==
    /\ pc = "new"
    /\ \A h \in DOMAIN guards : h < g => guards[h] = "some"
    /\ CallForGuard(g, TreeBuilder_add_branch(self, text))
    /\ UNCHANGED <<watch, pc>>

B_Release(g) ==
    /\ pc = "new"
    /\ guards[g] = "none" \/ (Innermost(g) /\ \A h \in DOMAIN guards : guards[h] # "unborn")
    /\ CallOnGuard(g, ScopedBranch_release(guards[g], self))
    /\ UNCHANGED <<watch, pc>>

B_Drop(g) ==
    /\ pc = "new"
    /\ guards[g] = "none" \/ (Innermost(g) /\ \A h \in DOMAIN guards : guards[h] # "unborn")
    /\ CallOnGuard(g, ScopedBranch_drop(guards[g], self))
    /\ UNCHANGED <<watch, pc>>

B_Depth ==
    /\ pc = "new"
    /\ \A g \in DOMAIN guards : guards[g] \in {"none", "dropped"}
    /\ \E overflow_checks \in BOOLEAN : Call(TreeBuilder_depth(self, overflow_checks))
    /\ pc' = "measured"
    /\ UNCHANGED watch

B_Peek ==
    /\ pc = "measured"
    /\ Call(TreeBuilder_peek_string(self))
    /\ pc' = "rendered"
    /\ UNCHANGED watch

InitB == InitBuilder(3) /\ pc = "new"

NextB ==
    \/ \E g \in DOMAIN guards, text \in BranchTexts : B_AddBranch(g, text)
    \/ \E g \in DOMAIN guards : B_Release(g)
    \/ \E g \in DOMAIN guards : B_Drop(g)
    \/ B_Depth
    \/ B_Peek

SpecB == InitB /\ [][NextB]_vars

\* ------------------------- scenario A (a branch, then its next sibling)
\* From any cursor position an enabled builder reaches with a few calls:
\* add_leaf(B); enter(); one or more add_leaf calls; exit(); add_leaf(S).
\* watch.at remembers the path at which B was inserted.
MaxBefore == 1
MaxInside == 2
TextB == <<"1">>
TextS == <<"2">>
InsideTexts == { <<"1", ".", "1">>, <<"a", "\n", "b">> }

A_Before_AddLeaf(text) ==
    /\ pc = "new"
    /\ (node_count(data) - 1) + (IF dive_count > 0 THEN dive_count ELSE 1) <= MaxBefore
    /\ Call(TreeBuilder_add_leaf(self, text))
    /\ UNCHANGED <<watch, pc>>

A_Before_Enter ==
    /\ pc = "new"
    /\ dive_count < MaxDive
    /\ Call(TreeBuilder_enter(self))
    /\ UNCHANGED <<watch, pc>>

A_Before_Exit ==
    /\ pc = "new"
    /\ Call(TreeBuilder_exit(self))
    /\ UNCHANGED <<watch, pc>>

A_AddLeafB ==
    /\ pc = "new"
    /\ Call(TreeBuilder_add_leaf(self, TextB))
    /\ watch' = [NoWatch EXCEPT !.at = path']
    /\ pc' = "branch"

A_Enter ==
    /\ pc = "branch"
    /\ Call(TreeBuilder_enter(self))
    /\ pc' = "entered"
    /\ UNCHANGED watch

A_AddLeafInside(text) ==
    /\ pc \in {"entered", "inside"}
    /\ watch.nesting < MaxInside
    /\ Call(TreeBuilder_add_leaf(self, text))
    /\ watch' = [watch EXCEPT !.nesting = @ + 1]
    /\ pc' = "inside"

A_Exit ==
    /\ pc = "inside"
    /\ Call(TreeBuilder_exit(self))
    /\ pc' = "exited"
    /\ UNCHANGED watch

A_AddLeafS ==
    /\ pc = "exited"
    /\ Call(TreeBuilder_add_leaf(self, TextS))
    /\ pc' = "sibling"
    /\ UNCHANGED watch

InitA == InitBuilder(0) /\ pc = "new"

NextA ==
    \/ \E text \in Texts : A_Before_AddLeaf(text)
    \/ A_Before_Enter
    \/ A_Before_Exit
    \/ A_AddLeafB
    \/ A_Enter
    \/ \E text \in InsideTexts : A_AddLeafInside(text)
    \/ A_Exit
    \/ A_AddLeafS

SpecA == InitA /\ [][NextA]_vars

\* ------------------------------------------------------------ rendering
\* Trees large enough for every shape of line: a node with a later sibling
\* and a grandchild below it needs four nodes.  The builder stays enabled.
RenderNodes == 4
\* Indentations: one below the contract, the default, and the 4 of the tests.
RenderIndents == {1, 2, 4}

R_SetIndentation(n) ==
    /\ pc = "render"
    /\ Call(TreeBuilder_set_indentation(self, n))
    /\ UNCHANGED <<watch, pc>>

R_AddLeaf(text) ==
    /\ pc = "render"
    /\ (node_count(data) - 1) + (IF dive_count > 0 THEN dive_count ELSE 1) <= RenderNodes
    /\ Call(TreeBuilder_add_leaf(self, text))
    /\ UNCHANGED <<watch, pc>>

R_Enter ==
    /\ pc = "render"
    /\ dive_count < MaxDive
    /\ Call(TreeBuilder_enter(self))
    /\ UNCHANGED <<watch, pc>>

R_Exit ==
    /\ pc = "render"
    /\ Call(TreeBuilder_exit(self))
    /\ UNCHANGED <<watch, pc>>

R_PeekString ==
    /\ pc = "render"
    /\ Call(TreeBuilder_peek_string(self))
    /\ UNCHANGED <<watch, pc>>

InitRender == InitBuilder(0) /\ pc = "render"

NextRender ==
    \/ \E n \in RenderIndents : R_SetIndentation(n)
    \/ \E text \in Texts : R_AddLeaf(text)
    \/ R_Enter
    \/ R_Exit
    \/ R_PeekString

SpecRender == InitRender /\ [][NextRender]_vars

\* ---------------------------------------------- threads sharing a builder
\* Several threads hold clones of one TreeBuilder.  A step is one critical
\* section: what a thread does between one lock() of the builder's Mutex
\* and the drop of that MutexGuard.  add_leaf, enter, exit and set_enabled
\* are one section each.  add_branch is two: add_leaf locks and unlocks,
\* then ScopedBranch::new locks again to enter.  enter_scoped is two:
\* is_enabled locks and unlocks, then ScopedBranch::new (or none, which
\* takes no lock).  Here pc maps each thread to where it is in such a
\* call.  A panic inside a section poisons the Mutex: every later
\* lock().unwrap() panics too, so nothing more happens to the builder.
NThreads == 2
Threads == 1..NThreads

Idle(t) == ~panicked /\ pc[t] = "idle"

\* A thread may start a call that hands back a guard while a slot is left.
SlotLeft ==
    Cardinality({g \in DOMAIN guards : guards[g] = "unborn"})
        > Cardinality({t \in Threads : pc[t] # "idle"})

T_AddLeaf(t, text) ==
    /\ Idle(t)
    /\ RoomFor(self)
    /\ Call(TreeBuilder_add_leaf(self, text))
    /\ UNCHANGED <<watch, pc>>

T_Enter(t) ==
    /\ Idle(t)
    /\ RoomToDive(self)
    /\ Call(TreeBuilder_enter(self))
    /\ UNCHANGED <<watch, pc>>

T_Exit(t) ==
    /\ Idle(t)
    /\ Call(TreeBuilder_exit(self))
    /\ UNCHANGED <<watch, pc>>

T_SetEnabled(t, enabled) ==
    /\ Idle(t)
    /\ Call(TreeBuilder_set_enabled(self, enabled))
    /\ UNCHANGED <<watch, pc>>

\* add_branch, first section: self.add_leaf(text).
T_AddBranch_AddLeaf(t, text) ==
    /\ Idle(t)
    /\ SlotLeft
    /\ RoomFor(self)
    /\ Call(TreeBuilder_add_leaf(self, text))
    /\ pc' = [pc EXCEPT ![t] = "add_branch"]
    /\ UNCHANGED watch

\* add_branch, second section: ScopedBranch::new(self.clone()).
T_AddBranch_New(t, g) ==
    /\ pc[t] = "add_branch"
    /\ RoomToDive(self)
    /\ CallForGuard(g, ScopedBranch_new(self))
    /\ pc' = [pc EXCEPT ![t] = "idle"]
    /\ UNCHANGED watch

\* enter_scoped, first section: self.is_enabled().
T_EnterScoped_IsEnabled(t) ==
    /\ Idle(t)
    /\ SlotLeft
    /\ Call(TreeBuilder_is_enabled(self))
    /\ pc' = [pc EXCEPT ![t] = IF ret'.b THEN "enter_scoped_new" ELSE "enter_scoped_none"]
    /\ UNCHANGED watch

\* enter_scoped, then-branch: ScopedBranch::new(self.clone()).
T_EnterScoped_New(t, g) ==
    /\ pc[t] = "enter_scoped_new"
    /\ RoomToDive(self)
    /\ CallForGuard(g, ScopedBranch_new(self))
    /\ pc' = [pc EXCEPT ![t] = "idle"]
    /\ UNCHANGED watch

\* enter_scoped, else-branch: ScopedBranch::none().
T_EnterScoped_None(t, g) ==
    /\ pc[t] = "enter_scoped_none"
    /\ CallForGuard(g, ScopedBranch_none(self))
    /\ pc' = [pc EXCEPT ![t] = "idle"]
    /\ UNCHANGED watch

\* The drop of a guard, by the thread that holds it.
T_Drop(t, g) ==
    /\ Idle(t)
    /\ CallOnGuard(g, ScopedBranch_drop(guards[g], self))
    /\ UNCHANGED <<watch, pc>>

\* TreeBuilder::flush_string: render and clear in one lock section.
T_FlushString(t) ==
    /\ Idle(t)
    /\ Call(TreeBuilder_flush_string(self))
    /\ UNCHANGED <<watch, pc>>

InitThreads == InitBuilder(NThreads) /\ pc = [t \in Threads |-> "idle"]

NextThreads ==
    \/ \E t \in Threads, text \in GuardTexts : T_AddLeaf(t, text)
    \/ \E t \in Threads : T_Enter(t)
    \/ \E t \in Threads : T_Exit(t)
    \/ \E t \in Threads, enabled \in BOOLEAN : T_SetEnabled(t, enabled)
    \/ \E t \in Threads, text \in GuardTexts : T_AddBranch_AddLeaf(t, text)
    \/ \E t \in Threads, g \in DOMAIN guards : T_AddBranch_New(t, g)
    \/ \E t \in Threads : T_EnterScoped_IsEnabled(t)
    \/ \E t \in Threads, g \in DOMAIN guards : T_EnterScoped_New(t, g)
    \/ \E t \in Threads, g \in DOMAIN guards : T_EnterScoped_None(t, g)
    \/ \E t \in Threads, g \in DOMAIN guards : T_Drop(t, g)

SpecThreads == InitThreads /\ [][NextThreads]_vars

\* Threads that add leaves and branches and flush one shared builder.
NextFlush ==
    \/ \E t \in Threads, text \in GuardTexts : T_AddLeaf(t, text)
    \/ \E t \in Threads : T_Enter(t)
    \/ \E t \in Threads : T_Exit(t)
    \/ \E t \in Threads, text \in GuardTexts : T_AddBranch_AddLeaf(t, text)
    \/ \E t \in Threads, g \in DOMAIN guards : T_AddBranch_New(t, g)
    \/ \E t \in Threads, g \in DOMAIN guards : T_Drop(t, g)
    \/ \E t \in Threads : T_FlushString(t)

SpecFlush == InitThreads /\ [][NextFlush]_vars

\* ---------------------------- a guard that outlives a clear or a flush
\* An enabled builder: some leaves and enters; a guard from add_branch or
\* enter_scoped; some leaves inside; clear(), flush_string() or
\* flush_print() while the guard is armed; the guard released or dropped;
\* then depth() and add_leaf(t).
V_AddLeaf(text) ==
    /\ pc \in {"new", "armed"}
    /\ RoomFor(self)
    /\ Call(TreeBuilder_add_leaf(self, text))
    /\ UNCHANGED <<watch, pc>>

V_Enter ==
    /\ pc = "new"
    /\ RoomToDive(self)
    /\ Call(TreeBuilder_enter(self))
    /\ UNCHANGED <<watch, pc>>

V_AddBranch(g, text) ==
    /\ pc = "new"
    /\ CallForGuard(g, TreeBuilder_add_branch(self, text))
    /\ pc' = "armed"
    /\ UNCHANGED watch

V_EnterScoped(g) ==
    /\ pc = "new"
    /\ CallForGuard(g, TreeBuilder_enter_scoped(self))
    /\ pc' = "armed"
    /\ UNCHANGED watch

V_Clear ==
    /\ pc = "armed"
    /\ Call(TreeBuilder_clear(self))
    /\ pc' = "cleared"
    /\ UNCHANGED watch

V_FlushString ==
    /\ pc = "armed"
    /\ Call(TreeBuilder_flush_string(self))
    /\ pc' = "cleared"
    /\ UNCHANGED watch

V_FlushPrint ==
    /\ pc = "armed"
    /\ Call(TreeBuilder_flush_print(self))
    /\ pc' = "cleared"
    /\ UNCHANGED watch

V_Release(g) ==
    /\ pc = "cleared"
    /\ guards[g] = "some"
    /\ CallOnGuard(g, ScopedBranch_release(guards[g], self))
    /\ pc' = "released"
    /\ UNCHANGED watch

V_Drop(g) ==
    /\ pc = "cleared"
    /\ guards[g] = "some"
    /\ CallOnGuard(g, ScopedBranch_drop(guards[g], self))
    /\ pc' = "released"
    /\ UNCHANGED watch

V_Depth ==
    /\ pc = "released"
    /\ \E overflow_checks \in BOOLEAN : Call(TreeBuilder_depth(self, overflow_checks))
    /\ pc' = "measured"
    /\ UNCHANGED watch

V_AddLeafAfter(text) ==
    /\ pc = "measured"
    /\ Call(TreeBuilder_add_leaf(self, text))
    /\ pc' = "added"
    /\ watch' = [NoWatch EXCEPT !.at = text]

InitCleared == InitBuilder(1) /\ pc = "new"

NextCleared ==
    \/ \E text \in Texts : V_AddLeaf(text)
    \/ V_Enter
    \/ \E g \in DOMAIN guards, text \in Texts : V_AddBranch(g, text)
    \/ \E g \in DOMAIN guards : V_EnterScoped(g)
    \/ V_Clear
    \/ V_FlushString
    \/ V_FlushPrint
    \/ \E g \in DOMAIN guards : V_Release(g)
    \/ \E g \in DOMAIN guards : V_Drop(g)
    \/ V_Depth
    \/ \E text \in Texts : V_AddLeafAfter(text)

SpecCleared == InitCleared /\ [][NextCleared]_vars

\* ------------------------------- add_leaf on any TreeBuilderBase value
\* TreeBuilderBase::add_leaf as a function of the value it is called on,
\* cursors that do not resolve in the tree included: the branches
\* `if let Some(x) = ..at_mut(..)` of add_leaf are written for them.
MaxPath == 2
AnyLeaf == Tree_new(Some(<<"a">>))
AnyTrees ==
    { Tree_new(None),
      push_at(Tree_new(None), <<>>, AnyLeaf),
      push_at(push_at(Tree_new(None), <<>>, AnyLeaf), <<>>, AnyLeaf),
      push_at(push_at(Tree_new(None), <<>>, AnyLeaf), <<0>>, AnyLeaf) }
AnyPaths == UNION { [1..k -> 0..1] : k \in 0..MaxPath }

InitAny ==
    /\ guards = <<>>
    /\ ghist = <<>>
    /\ panicked = FALSE
    /\ ret = Unit
    /\ watch = NoWatch
    /\ data \in AnyTrees
    /\ path \in AnyPaths
    /\ dive_count \in 0..MaxDive
    /\ indent = Base_new.indent
    /\ is_enabled = Base_new.is_enabled
    /\ pc = "given"

Y_AddLeaf(text) ==
    /\ pc = "given"
    /\ Call(TreeBuilder_add_leaf(self, text))
    /\ pc' = "applied"
    /\ UNCHANGED watch

NextAny == \E text \in Texts : Y_AddLeaf(text)

SpecAny == InitAny /\ [][NextAny]_vars

\* ================================================================ claims

\* The freshly constructed builder: empty root, path = [], dive_count = 1,
\* indent = 2.
Fresh ==
    /\ data = Tree_new(None)
    /\ path = <<>>
    /\ dive_count = 1
    /\ indent = 2

\* C1: after any sequence of operations, a flush_string() or clear() that
\* returns leaves the builder in exactly the freshly constructed state
\* (empty root, path = [], dive_count = 1, indent = 2), in which
\* peek_string() returns the empty string.
C1_FlushLeavesFresh ==
    [][(FlushString \/ Clear) /\ ~panicked'
        => (Fresh /\ TreeBuilder_peek_string(self).ret = RetString("peek_string", <<>>))']_vars

\* A flush_string() returned a non-empty render, moved the cursor back and
\* reset a changed indentation.
C1_Witness ==
    /\ ret.op = "flush_string"
    /\ Len(ret.s) > 1
    /\ Fresh

\* C9: a peek_string() that returns changes nothing: the tree, path,
\* dive_count, indent, the enabled flag and the guards are as before, and
\* when the call before it was a peek_string() too, it returns the same
\* string.
C9_PeekChangesNothing ==
    [][PeekString /\ ~panicked'
        => /\ UNCHANGED <<data, path, dive_count, indent, is_enabled, guards>>
           /\ ret'.op = "peek_string"
           /\ (ret.op = "peek_string" => ret'.s = ret.s)]_vars

\* peek_string() rendered a tree of at least two lines and the tree is
\* still there.
C9_Witness ==
    /\ ret.op = "peek_string"
    /\ \E i \in 1..Len(ret.s) : ret.s[i] = Tip
    /\ Len(data.children) > 0
    /\ path # <<>>

\* C3 (as claimed): whenever depth() == 0, the freshly constructed builder
\* included, exit() returns false and changes neither path nor dive_count
\* nor the tree.
C3_ExitAtTopIsNoOp ==
    [][Exit /\ ~panicked' /\ Len(path) + dive_count - 1 = 0
        => ret' = RetBool("exit", FALSE) /\ UNCHANGED <<path, dive_count, data>>]_vars

\* What depth() yields in the current state, in a build with
\* (overflow_checks) or without overflow checks.
depth_call(overflow_checks) == TreeBuilder_depth(self, overflow_checks)

\* depth() returns the same before and after the step, plus `by`.
DepthMoves(by) ==
    \A oc \in BOOLEAN :
        ~depth_call(oc).panic
            => /\ ~depth_call(oc)'.panic
               /\ depth_call(oc)'.ret.n = depth_call(oc).ret.n + by

\* C10 (as claimed, on an enabled builder): depth() is 0 on a new builder;
\* add_leaf never changes depth(), enter raises it by exactly 1, an exit
\* returning true lowers it by exactly 1 and an exit returning false leaves
\* it unchanged.
C10_DepthMovesByDescents ==
    /\ (Init => \A oc \in BOOLEAN : depth_call(oc) = Ok(self, RetUsize("depth", 0)))
    /\ [][is_enabled /\ ~panicked'
            => /\ (\E text \in Texts : AddLeaf(text)) => DepthMoves(0)
               /\ Enter => DepthMoves(1)
               /\ (Exit /\ ret'.b) => DepthMoves(-1)
               /\ (Exit /\ ~ret'.b) => DepthMoves(0)]_vars

\* C5 (as claimed): a guard returned by add_branch or enter_scoped while the
\* builder is disabled is inert: releasing or dropping it never calls exit
\* on the builder, so the release leaves the builder as it was, even when
\* the builder has been enabled again before the release.
C5_DisabledGuardIsInert ==
    [][\A g \in DOMAIN guards :
          (guards[g] # "unborn" /\ ~ghist[g].born_enabled /\ (Release(g) \/ Drop(g)))
              => UNCHANGED base_vars]_vars

\* C6: a ScopedBranch calls exit on the builder at most once: a guard
\* created armed has called it exactly once after its first release() or
\* its drop, however many release() calls and the drop follow, and not
\* before; the inert guard never calls it.
C6_ExitAtMostOnce ==
    \A g \in DOMAIN guards :
        /\ ghist[g].exits <= 1
        /\ guards[g] = "some" => ghist[g].exits = 0
        /\ guards[g] \in {"none", "dropped"}
              => ghist[g].exits = (IF ghist[g].armed THEN 1 ELSE 0)

\* An armed guard was released twice and then dropped, and has called exit
\* once.
C6_Witness ==
    \E g \in DOMAIN guards :
        /\ guards[g] = "dropped"
        /\ ghist[g].armed
        /\ ghist[g].releases = 2
        /\ ghist[g].exits = 1

\* C7 (as claimed, for a release that finds the cursor below the top
\* level, where an exit can take effect): for every guard created by
\* add_branch or enter_scoped on an enabled builder, so that its enter was
\* performed, the release or drop of the armed guard performs an exit that
\* takes effect on the cursor (depth goes down by one), whatever happened
\* between creation and release.
C7_GuardExitTakesEffect ==
    [][\A g \in DOMAIN guards :
          (/\ guards[g] = "some"
           /\ ghist[g].born_enabled
           /\ Len(path) + dive_count - 1 >= 1
           /\ (Release(g) \/ Drop(g)))
              => Len(path') + dive_count' = Len(path) + dive_count - 1]_vars


\* C2: a sequence of enter(), exit() and add_leaf() calls in which every
\* exit matches an earlier enter of the sequence, and every enter has been
\* matched, leaves depth() at the value it had before the sequence.
C2_BalancedKeepsDepth ==
    (watch.on /\ watch.nesting = 0 /\ ~panicked)
        => TreeBuilder_depth(self, watch.overflow_checks)
               = Ok(self, RetUsize("depth", watch.depth))

\* C4: in scenario D, add_leaf("X") returns and flush_string() yields
\* exactly "X": nothing done while the builder was disabled leaves a trace.
C4_DisabledLeavesNoTrace ==
    /\ pc = "added" => ~panicked
    /\ pc = "flushed" => ret = RetString("flush_string", TextX)

\* The chain the three nested branches of scenario B make: each node the
\* only child of the one before.
Chain == <<data.children[1],
           data.children[1].children[1],
           data.children[1].children[1].children[1]>>

IsChain ==
    /\ Len(data.children) = 1
    /\ Len(Chain[1].children) = 1
    /\ Len(Chain[2].children) = 1
    /\ Len(Chain[3].children) = 0
    /\ \A i \in 1..3 : Chain[i].text.some

\* C8 (as the code has it): after the three nested add_branch calls are
\* released, depth() is 0 and peek_string() shows the three branch nodes,
\* one line each, every one nested below the one before.
C8_NestedBranchesRender ==
    /\ pc = "measured" => ret = RetUsize("depth", 0)
    /\ pc = "rendered" =>
        /\ IsChain
        /\ ret = RetString("peek_string",
                  Chain[1].text.val \o <<"\n">>
                  \o <<Corner, Tip, " ">> \o Chain[2].text.val \o <<"\n">>
                  \o <<" ", " ", Corner, Tip, " ">> \o Chain[3].text.val)

C8_Witness ==
    /\ pc = "rendered"
    /\ ret.op = "peek_string"
    /\ \A g \in DOMAIN guards : guards[g] = "dropped" /\ ghist[g].exits = 1
    /\ Len(path) + dive_count = 1

\* C8 as stated: after the three nested add_branch calls are released,
\* depth() is 0 and the render is empty.
C8_NestedBranchesRenderEmpty ==
    /\ pc = "measured" => ret = RetUsize("depth", 0)
    /\ pc = "rendered" => ret = RetString("peek_string", <<>>)


\* The node B of scenario A, its parent, and B's index under its parent.
B_index == watch.at[Len(watch.at)]
B_parent == at_mut(data, SubSeq(watch.at, 1, Len(watch.at) - 1)).val
B_node == at_mut(data, watch.at).val

\* C11: after add_leaf(B); enter(); one or more add_leaf calls; exit(), the
\* next add_leaf(S) makes S the next sibling of B: the child directly
\* after B under B's parent, the cursor on it, B keeping exactly the leaves
\* added inside it.  From a new builder with the single inner leaf "1.1"
\* the flush is "1", then "1.1" under a corner connector, then "2".
C11_NextSiblingAfterExit ==
    (pc = "sibling" /\ ~panicked) =>
        /\ Len(B_parent.children) = B_index + 2
        /\ B_parent.children[B_index + 1] = B_node
        /\ B_node.text = Some(TextB)
        /\ Len(B_node.children) = watch.nesting
        /\ \A i \in 1..Len(B_node.children) : B_node.children[i].children = <<>>
        /\ B_parent.children[B_index + 2] = Tree_new(Some(TextS))
        /\ path = SubSeq(watch.at, 1, Len(watch.at) - 1) \o <<B_index + 1>>
        /\ dive_count = 0
        /\ (data.children = <<[text |-> Some(TextB),
                               children |-> <<Tree_new(Some(<<"1", ".", "1">>))>>],
                              Tree_new(Some(TextS))>>
              => TreeBuilder_flush_string(self).ret
                   = RetString("flush_string",
                         <<"1", "\n", Corner, Tip, " ", "1", ".", "1", "\n", "2">>))

C11_Witness ==
    /\ pc = "sibling" /\ ~panicked
    /\ Len(watch.at) = 2
    /\ watch.nesting = 2
    /\ path = <<0, 1>>


\* ---- what the rendered lines are expected to look like
\* The lines of the last peek_string(), one per node (the root's own line,
\* which peek_string drops, first).
RenderedLines == lines(data, <<>>, 0, 1, indent).out

\* The paths of the nodes below t in the order their lines are emitted.
RECURSIVE NodePaths(_, _)
NodePaths(t, p) ==
    LET RECURSIVE below(_)
        below(i) == IF i > Len(t.children) THEN <<>>
                    ELSE NodePaths(t.children[i], Append(p, i - 1)) \o below(i + 1)
    IN <<p>> \o below(1)

NodeAt(p) == at_mut(data, p).val
Parent(p) == SubSeq(p, 1, Len(p) - 1)
HasLaterSibling(p) == p[Len(p)] + 1 < Len(NodeAt(Parent(p)).children)
StartsWith(x, pre) == Len(x) >= Len(pre) /\ SubSeq(x, 1, Len(pre)) = pre

\* One guide column per ancestor of p at depth >= 2, n columns wide each.
RECURSIVE Guides(_, _, _)
Guides(p, k, n) ==
    IF k >= Len(p) THEN <<>>
    ELSE <<IF HasLaterSibling(SubSeq(p, 1, k)) THEN VBar ELSE " ">>
         \o [j \in 1..(n - 1) |-> " "] \o Guides(p, k + 1, n)

\* The peek just returned, and what it returned is the lines rl joined.
PeekedAs(rl) ==
    /\ ret.op = "peek_string"
    /\ ~panicked
    /\ ret.s = join(SubSeq(rl, 2, Len(rl)), <<"\n">>)

JustPeeked == PeekedAs(RenderedLines)

\* C12: in the render a node directly under the root is its bare text; a
\* deeper node's line starts with one guide column per ancestor at depth
\* >= 2 (a bar iff that ancestor has a later sibling, else a blank) and
\* then the connector glyph: a tee iff the node has a later sibling, a
\* corner iff it is the last or only child.
C12_GuidesAndConnectors ==
    ret.op = "peek_string" /\ ~panicked =>
        LET rl == RenderedLines
            ps == NodePaths(data, <<>>)
        IN /\ PeekedAs(rl)
           /\ Len(rl) = Len(ps)
           /\ \A k \in 2..Len(ps) :
                 LET p == ps[k]
                     node == NodeAt(p)
                 IN IF Len(p) = 1
                    THEN rl[k] = (IF node.text.some THEN node.text.val ELSE <<>>)
                    ELSE StartsWith(rl[k],
                             Guides(p, 2, indent)
                             \o <<IF HasLaterSibling(p) THEN Tee ELSE Corner>>)

\* A just-rendered tree 1 [ 1.1 [ x ], 1.2 ]: x's line has a bar guide for
\* 1.1 and a corner, 1.1 has a tee, 1.2 a corner.
C12_Witness ==
    /\ JustPeeked
    /\ indent >= 2
    /\ Len(data.children) = 1
    /\ Len(data.children[1].children) = 2
    /\ Len(data.children[1].children[1].children) = 1
    /\ \E i \in 1..Len(ret.s) : ret.s[i] = VBar


\* C14: with indentation n >= 2 every level below the first is n columns
\* wide: on the line of a node at depth d >= 2 each of the d - 2 guide
\* columns is one glyph and n - 1 spaces, and the connector, starting at
\* column n * (d - 2), is one corner or tee, n - 2 rules and the tip; so a
\* child's connector starts n columns right of its parent's.  A two-level
\* tree of "a" over "a" renders with connector corner-tip for n = 2 and
\* corner-rule-rule-tip for n = 4.
C14_LevelIsIndentWide ==
    (ret.op = "peek_string" /\ ~panicked /\ indent >= 2) =>
        LET rl == RenderedLines
            ps == NodePaths(data, <<>>)
            n == indent
        IN /\ PeekedAs(rl)
           /\ \A k \in 2..Len(ps) :
                 LET d == Len(ps[k])
                     line == rl[k]
                     c == n * (d - 2)
                 IN d >= 2 =>
                      /\ Len(line) >= c + n
                      /\ \A j \in 0..(d - 3) :
                            /\ line[j * n + 1] \in {VBar, " "}
                            /\ \A i \in 2..n : line[j * n + i] = " "
                      /\ line[c + 1] \in {Tee, Corner}
                      /\ \A i \in 2..(n - 1) : line[c + i] = HRule
                      /\ line[c + n] = Tip
                      /\ Len(line) > c + n => line[c + n + 1] = " "
           /\ data.children = <<[text |-> Some(<<"a">>),
                                 children |-> <<Tree_new(Some(<<"a">>))>>]>>
                => /\ indent = 2 => ret.s = <<"a", "\n", Corner, Tip, " ", "a">>
                   /\ indent = 4 => ret.s = <<"a", "\n", Corner, HRule, HRule, Tip, " ", "a">>

\* A render with indentation 4 of a tree three levels deep.
C14_Witness ==
    /\ JustPeeked
    /\ indent = 4
    /\ \E k \in 1..Len(RenderedLines) :
          StartsWith(RenderedLines[k], <<VBar, " ", " ", " ", Corner, HRule, HRule, Tip>>)


\* x with `lead` inserted after every line break.
RECURSIVE LeadEachLine(_, _)
LeadEachLine(x, lead) ==
    IF x = <<>> THEN <<>>
    ELSE IF x[1] = "\n"
         THEN <<"\n">> \o lead \o LeadEachLine(Tail(x), lead)
         ELSE <<x[1]>> \o LeadEachLine(Tail(x), lead)

\* The lead of a continuation line of the node at p whose text starts
\* `width` columns after the node's guide columns.
ContinuationLead(p, width) ==
    Guides(p, 2, indent)
    \o <<IF HasLaterSibling(p) THEN VBar ELSE " ">>
    \o [j \in 1..(width - 1) |-> " "]

HasLineBreak(node) ==
    node.text.some /\ \E i \in 1..Len(node.text.val) : node.text.val[i] = "\n"

\* The line of the node at p when the text of its continuation lines
\* starts `width` columns after the guide columns.
LineWithContinuations(p, width) ==
    Guides(p, 2, indent)
    \o <<IF HasLaterSibling(p) THEN Tee ELSE Corner>>
    \o [j \in 1..(indent - 2) |-> HRule] \o <<Tip, " ">>
    \o LeadEachLine(NodeAt(p).text.val, ContinuationLead(p, width))

\* C13: for indentation >= 2, every continuation line of a multi-line leaf
\* below the top level starts with the leaf's guide columns, then a bar iff
\* the leaf has a later sibling (a blank otherwise), and its text starts in
\* the column of the first character of the leaf's first line, which is
\* indent + 1 columns after the guide columns.
C13_ContinuationAligned ==
    (ret.op = "peek_string" /\ ~panicked /\ indent >= 2) =>
        LET rl == RenderedLines
            ps == NodePaths(data, <<>>)
        IN /\ PeekedAs(rl)
           /\ \A k \in 2..Len(ps) :
                 (Len(ps[k]) >= 2 /\ HasLineBreak(NodeAt(ps[k])))
                     => rl[k] = LineWithContinuations(ps[k], indent + 1)


\* C15: every public operation is atomic: while a thread is between the
\* leaf insertion and the descent of its add_branch call, or between the
\* enabled check and the descent of its enter_scoped call, no step of
\* another thread changes the builder.
C15_CompositeCallsAtomic ==
    [][\A t \in Threads :
          (pc[t] # "idle" /\ pc'[t] = pc[t]) => UNCHANGED base_vars]_vars


\* C16: in every state the public operations reach, the cursor resolves:
\* at_mut(path) finds a node, and so does at_mut of path without its last
\* element.
C16_CursorResolves ==
    /\ at_mut(data, path).some
    /\ path # <<>> => at_mut(data, Parent(path)).some

\* The cursor on a leaf two levels down.
C16_Witness ==
    /\ Len(path) = 2
    /\ dive_count = 0
    /\ NodeAt(path).text.some
    /\ ~panicked


\* C17: in every state add_leaf, enter, exit and clear reach,
\* path.len() + dive_count >= 1: depth() does not underflow and add_leaf
\* does not slice an empty path.
C17_CursorAtOrBelowTop ==
    ~panicked =>
        /\ Len(path) + dive_count >= 1
        /\ \A oc \in BOOLEAN : ~Base_depth(self, oc).panic
        /\ \A text \in Texts : ~Base_add_leaf(self, text).panic


\* C18: a guard still armed when the builder is cleared or flushed stays
\* valid: after its release or drop depth() returns, and the add_leaf(t)
\* that follows returns and makes t a top-level leaf.
C18_GuardOutlivesClear ==
    /\ pc = "measured" => ~panicked /\ ret.op = "depth"
    /\ pc = "added" =>
          /\ ~panicked
          /\ Len(path) = 1
          /\ NodeAt(path) = Tree_new(Some(watch.at))


\* The at_mut call that add_leaf makes in the current state finds no node.
Unresolved ==
    IF dive_count > 0
    THEN ~at_mut(data, path).some
    ELSE path # <<>> /\ ~at_mut(data, Parent(path)).some

C20_IndentAtLeastTwo ==
    ~panicked =>
        /\ indent >= 2
        /\ ~Base_peek_string(self).panic
        /\ ~Base_flush_string(self).panic

\* C21: a step of enter() or of exit() leaves the tree as it was, and an
\* exit() right after an enter(), with no add_leaf in between, returns
\* without a panic and gives back the path and dive_count (the whole
\* builder) that the enter() found, so no node is created for the pair and
\* the next add_leaf has the effect it would have had without the pair.
C21_EnterExitLeaveTree ==
    [][ /\ (Enter \/ Exit) => data' = data
        /\ Enter =>
              LET back == TreeBuilder_exit(self')
              IN /\ ~back.panic
                 /\ back.self = self
                 /\ node_count(back.self.data) = node_count(data)
                 /\ \A text \in Texts :
                        TreeBuilder_add_leaf(back.self, text) = TreeBuilder_add_leaf(self, text)
      ]_vars

\* An enabled builder with leaves in its tree on which enter() has just
\* raised dive_count to 2.
C21_Witness ==
    /\ is_enabled /\ ~panicked
    /\ dive_count = 2
    /\ node_count(data) > 1
    /\ ret = Unit

\* A chain of k new nodes, each the only child of the one before, the last
\* one carrying text and the others none.
RECURSIVE NewChain(_, _)
NewChain(k, text) ==
    IF k <= 1
    THEN Tree_new(Some(text))
    ELSE [Tree_new(None) EXCEPT !.children = <<NewChain(k - 1, text)>>]

\* The step is the add_leaf(text) the claim describes: with dive_count =
\* k > 0 the tree gains exactly the chain of k nodes below the node at
\* path, path gains the k indices of the new nodes and dive_count is 0;
\* with dive_count = 0 the tree gains exactly one node, with the text,
\* next to the node at path.
AddsChain(text) ==
    LET k == dive_count
    IN IF k > 0
       THEN /\ data' = push_at(data, path, NewChain(k, text))
            /\ node_count(data') = node_count(data) + k
            /\ path' = path \o [i \in 1..k |->
                                  IF i = 1 THEN Len(NodeAt(path).children) ELSE 0]
            /\ \A i \in 1..k :
                  LET x == at_mut(data', SubSeq(path', 1, Len(path) + i))
                  IN x.some /\ (x.val.text.some <=> i = k)
            /\ at_mut(data', path').val.text = Some(text)
            /\ dive_count' = 0
       ELSE /\ node_count(data') = node_count(data) + 1
            /\ Len(path) > 0
            /\ data' = push_at(data, Parent(path), Tree_new(Some(text)))
            /\ dive_count' = 0

\* C22: every add_leaf(text) on an enabled builder returns and has added
\* the chain: dive_count = k > 0 nodes below the node at path, the first
\* k - 1 without text and the last with text, path extended by the k new
\* indices and dive_count reset to 0; exactly one node when dive_count = 0.
C22_DiveAddsChain ==
    [][ \A text \in Texts :
          (AddLeaf(text) /\ is_enabled) => (~panicked' /\ AddsChain(text)) ]_vars

\* C23: in every reachable state each index in path is the index of the
\* last child of its parent, the node at the path before it: the cursor
\* lies on the rightmost spine of the tree.  A state an add_leaf in the
\* sibling case has produced is one of them, so there the last element of
\* path, old index + 1, is the index of the child just appended.
C23_CursorOnRightmostSpine ==
    \A i \in 1..Len(path) :
        LET parent == at_mut(data, SubSeq(path, 1, i - 1))
        IN /\ parent.some
           /\ path[i] = Len(parent.val.children) - 1

\* add_leaf in the sibling case has appended a second top-level leaf:
\* the last index of path went from 0 to 1.
C23_Witness ==
    /\ ~panicked /\ is_enabled
    /\ dive_count = 0
    /\ path = <<1>>
    /\ Len(data.children) = 2
    /\ ret = Unit

\* The texts of the nodes below the root in the order of their lines in
\* the render (None for a node without text).
NodeTexts(t) ==
    LET ps == NodePaths(t, <<>>)
    IN [k \in 1..(Len(ps) - 1) |-> at_mut(t, ps[k + 1]).val.text]

RECURSIVE LeafTexts(_)
LeafTexts(ts) ==
    IF ts = <<>> THEN <<>>
    ELSE (IF Head(ts).some THEN <<Head(ts).val>> ELSE <<>>) \o LeafTexts(Tail(ts))

EndsWith(x, suf) ==
    Len(x) >= Len(suf) /\ SubSeq(x, Len(x) - Len(suf) + 1, Len(x)) = suf

\* What follows the last line break of a text.
LastLine(text) ==
    LET nl == { i \in 1..Len(text) : text[i] = "\n" }
        last == IF nl = {} THEN 0 ELSE CHOOSE i \in nl : \A j \in nl : j <= i
    IN SubSeq(text, last + 1, Len(text))

\* The step keeps every node where it was, with its text, and the nodes it
\* adds come after all the old ones in the order of the render.
GrowsInOrder ==
    LET old == NodeTexts(data)
        new == NodeTexts(data')
    IN /\ Len(new) >= Len(old)
       /\ SubSeq(new, 1, Len(old)) = old
       /\ LET ps == NodePaths(data, <<>>)
          IN \A k \in 1..Len(ps) :
                LET x == at_mut(data', ps[k])
                IN x.some /\ x.val.text = at_mut(data, ps[k]).val.text

\* The step empties a tree that was not empty.
Empties == data' = Tree_new(None) /\ data # Tree_new(None)

\* Line k of the render rl is the line of the k-th node: it ends with the
\* end of that node's text, and with the end of no text when the node has
\* none.
LinesInNodeOrder(rl) ==
    LET ps == NodePaths(data, <<>>)
    IN /\ Len(rl) = Len(ps)
       /\ \A k \in 2..Len(ps) :
             LET node == at_mut(data, ps[k]).val
             IN IF node.text.some
                THEN EndsWith(rl[k], LastLine(node.text.val))
                ELSE \A t \in Texts : ~EndsWith(rl[k], LastLine(t))

\* C24: only clear, flush_string and flush_print empty the tree; every
\* other step keeps all nodes in place and adds new ones after them in
\* render order; an add_leaf(text) that returns puts text last among the
\* leaf texts; and peek_string returns one line per node in that order.
\* So the render lists the leaf texts in the order of the add_leaf calls
\* since the last clear.
C24_LeavesInCallOrder ==
    [][ /\ Empties => (Clear \/ FlushString \/ FlushPrint)
        /\ ~Empties => GrowsInOrder
        /\ \A text \in Texts :
              (AddLeaf(text) /\ is_enabled /\ ~panicked') =>
                  LeafTexts(NodeTexts(data')) = Append(LeafTexts(NodeTexts(data)), text)
        /\ (PeekString /\ ~panicked') =>
              LET rl == RenderedLines
              IN /\ ret'.s = join(SubSeq(rl, 2, Len(rl)), <<"\n">>)
                 /\ LinesInNodeOrder(rl)
      ]_vars

\* peek_string has rendered two leaves, the two-line text added first and
\* the one-line text second.
C24_Witness ==
    /\ ret.op = "peek_string" /\ ~panicked
    /\ Len(data.children) = 2
    /\ data.children[1].text = Some(<<"a", "\n", "b">>)
    /\ data.children[2].text = Some(<<"a">>)
    /\ LET rl == RenderedLines
       IN rl[2] # rl[3] /\ LinesInNodeOrder(rl)

\* C25: with several threads on one builder, a flush_string step returns
\* the render of the whole tree it finds, one line per node, and leaves
\* the tree empty in the same step; only flush_string empties the tree;
\* every other step of any thread keeps the nodes that are in the tree;
\* and an add_leaf that takes effect puts its leaf into the tree.  So each
\* leaf is in the tree from its add_leaf to the next flush_string, is in
\* that output, and is in no later one.
C25_FlushTakesEachLeafOnce ==
    [][ /\ \A t \in Threads :
              (T_FlushString(t) /\ ~panicked') =>
                  LET rl == RenderedLines
                  IN /\ ret'.s = join(SubSeq(rl, 2, Len(rl)), <<"\n">>)
                     /\ LinesInNodeOrder(rl)
                     /\ data' = Tree_new(None)
        /\ Empties => \E t \in Threads : T_FlushString(t)
        /\ ~Empties => GrowsInOrder
        /\ \A t \in Threads, text \in GuardTexts :
              (T_AddLeaf(t, text) /\ is_enabled /\ ~panicked') =>
                  LeafTexts(NodeTexts(data')) = Append(LeafTexts(NodeTexts(data)), text)
      ]_vars

\* A flush_string has returned leaves and emptied the tree while another
\* thread is between the two lock sections of a composite call.
C25_Witness ==
    /\ ret.op = "flush_string" /\ ret.s # <<>>
    /\ ~panicked
    /\ data = Tree_new(None)
    /\ \E t \in Threads : pc[t] # "idle"

====
